---- MODULE Spec2Model ----
(***************************************************************************)
(* Model of the Responsible AI App backend (src/main.py): the chat,        *)
(* conversation-create, conversation-list and diagnostic endpoints over a  *)
(* document store.  Text is modelled as sequences of one-character         *)
(* strings so that strip(), lower(), substring search and slicing are      *)
(* computed as Python computes them.  Optional[...] values are modelled    *)
(* as None == <<>> or Some(x) == <<x>>.                                     *)
(***************************************************************************)
EXTENDS Integers, Sequences, FiniteSets, TLC

VARIABLES db, nextOid, last, pend

vars == <<db, nextOid, last, pend>>

\* ---------------------------------------------------------------- bounds
MaxStore == 2      \* documents the store holds at most (Spec, SpecConc)
MaxChatStore == 1  \* documents the store holds at most (SpecChat)
MaxLimit == 2      \* largest limit passed to list_conversations
NumProcs == 2      \* concurrent chat requests (SpecConc)

\* ------------------------------------------------------- program constants
TitleLen == 40

None == <<>>
Some(x) == <<x>>

\* ------------------------------------------------------ string literals
RefusalReply ==
  <<"I"," ","c","a","n","'","t"," ","a","s","s","i","s","t"," ","w","i","t","h"," ","t","h","a","t","."," ","I","f"," ","y","o","u","'","r","e"," ","i","n"," ","d","a","n","g","e","r"," ","o","r"," ","f","e","e","l","i","n","g"," ","u","n","s","a","f","e",","," ","p","l","e","a","s","e"," ","s","e","e","k"," ","p","r","o","f","e","s","s","i","o","n","a","l"," ","h","e","l","p"," ","o","r"," ","c","o","n","t","a","c","t"," ","l","o","c","a","l"," ","a","u","t","h","o","r","i","t","i","e","s",".">>
EchoPrefix ==
  <<"Y","o","u"," ","s","a","i","d",":"," ">>
EchoSuffix ==
  <<"."," ","T","h","i","s"," ","i","s"," ","a"," ","d","e","m","o"," ","a","s","s","i","s","t","a","n","t",".">>
Ephemeral ==
  <<"e","p","h","e","m","e","r","a","l">>
NewChat ==
  <<"N","e","w"," ","C","h","a","t">>
W_illegal ==
  <<"i","l","l","e","g","a","l">>
W_violence ==
  <<"v","i","o","l","e","n","c","e">>
W_selfharm ==
  <<"s","e","l","f","-","h","a","r","m">>
UpperChars ==
  <<"A","B","C","D","E","F","G","H","I","J","K","L","M","N","O","P","Q","R","S","T","U","V","W","X","Y","Z">>
LowerChars ==
  <<"a","b","c","d","e","f","g","h","i","j","k","l","m","n","o","p","q","r","s","t","u","v","w","x","y","z">>
Digits ==
  <<"0","1","2","3","4","5","6","7","8","9">>

\* ------------------------------------------- request inputs (bounded sets)
M_empty ==
  <<>>
M_blank ==
  <<" "," ","\t">>
M_hello ==
  <<" ","h","e","l","l","o","\n">>
M_Illegal ==
  <<"I","s"," ","i","t"," ","I","L","L","E","G","A","L","?">>
M_Violence ==
  <<"n","o"," ","V","i","o","l","e","n","c","e"," ">>
M_SelfHarm ==
  <<"S","e","l","f","-","H","a","r","m">>
M_hurting ==
  <<"I"," ","f","e","e","l"," ","l","i","k","e"," ","h","u","r","t","i","n","g"," ","m","y","s","e","l","f">>
M_long ==
  <<"t","h","i","s"," ","m","e","s","s","a","g","e"," ","i","s"," ","l","o","n","g",","," ","w","e","l","l"," ","o","v","e","r"," ","f","o","r","t","y"," ","c","h","a","r","a","c","t","e","r","s">>
M_longblocked ==
  <<"\n","a"," ","l","o","n","g"," ","m","e","s","s","a","g","e"," ","w","h","o","s","e"," ","f","o","r","t","i","e","t","h"," ","c","h","a","r"," ","s","p","l","i","t","s"," ","i","l","l","e","g","a","l"," ">>

Messages ==
  {M_empty, M_blank, M_hello, M_Illegal, M_Violence, M_SelfHarm, M_hurting,
   M_long, M_longblocked}

\* (model, tone, language) of a chat request
Profiles ==
  { [model |-> None, tone |-> None, language |-> None],
    [model |-> Some("m1"), tone |-> Some("warm"), language |-> Some("en")] }

StoreErrors == {"db unavailable", "write timeout"}
Outcomes == {"ok"} \cup StoreErrors

Collections == {"conversation", "other"}
Procs == 1..NumProcs

\* ------------------------------------------------------- Python primitives
Whitespace == {" ", "\t", "\n", "\r", "\f"}

Min(a, b) == IF a < b THEN a ELSE b

RECURSIVE LStrip(_)
LStrip(s) ==
  IF s = <<>> THEN s
  ELSE IF Head(s) \in Whitespace THEN LStrip(Tail(s)) ELSE s

RECURSIVE RStrip(_)
RStrip(s) ==
  IF s = <<>> THEN s
  ELSE IF s[Len(s)] \in Whitespace THEN RStrip(SubSeq(s, 1, Len(s) - 1)) ELSE s

\* str.strip()
Strip(s) == RStrip(LStrip(s))

LowerCh(c) ==
  IF \E i \in 1..Len(UpperChars) : UpperChars[i] = c
  THEN LowerChars[CHOOSE i \in 1..Len(UpperChars) : UpperChars[i] = c]
  ELSE c

\* str.lower(), modelled without folding: a bug that compares case-sensitively
LowerIdentity(s) == s

\* str.lower()
Lower(s) == [i \in 1..Len(s) |-> LowerCh(s[i])]

\* word in text
Contains(word, text) ==
  \E i \in 1..(Len(text) - Len(word) + 1) :
    SubSeq(text, i, i + Len(word) - 1) = word

\* text[:n]
Take(text, n) == SubSeq(text, 1, Min(n, Len(text)))

RECURSIVE DecStr(_)
DecStr(n) ==
  IF n < 10 THEN <<Digits[n + 1]>>
  ELSE DecStr(n \div 10) \o <<Digits[(n % 10) + 1]>>

\* str(object id): the printable form of a store identifier
Str(oid) == <<"o">> \o DecStr(oid)

\* ------------------------------------------------------------ schemas
ChatMessage(role, content, model, tone, language) ==
  [role |-> role, content |-> content, model |-> model, tone |-> tone,
   language |-> language]

Conversation(title, messages) == [title |-> title, messages |-> messages]

\* ------------------------------------------------------------ the store
\* create_document(collection_name, record) -> generated id; may raise.
\* outcome is "ok" or the message of the exception the store raises.
create_document(st, collection, record, outcome) ==
  IF outcome = "ok"
  THEN [raised |-> FALSE,
        id |-> Str(st.nextOid),
        st |-> [db |-> [st.db EXCEPT ![collection] =
                          Append(@, ("_id" :> st.nextOid) @@ record)],
                nextOid |-> st.nextOid + 1]]
  ELSE [raised |-> TRUE, error |-> outcome, st |-> st]

\* get_documents(collection_name, filter, limit) -> raw records, at most limit
\* of them, in the store's natural order; may raise.  Only the empty filter is
\* used by the program.
get_documents(st, collection, limit, outcome) ==
  IF outcome = "ok"
  THEN [raised |-> FALSE,
        docs |-> SubSeq(st.db[collection], 1, Min(limit, Len(st.db[collection])))]
  ELSE [raised |-> TRUE, error |-> outcome]

HTTPException(status_code, detail) == [status |-> status_code, detail |-> detail]

\* ------------------------------------------------------------ requests
ConversationIds == {None, Some(Str(1))}

ChatRequest(conversation_id, message, profile) ==
  [conversation_id |-> conversation_id, message |-> message,
   model |-> profile.model, tone |-> profile.tone, language |-> profile.language]

\* SpecChat: every message, every profile
ChatRequests ==
  { ChatRequest(None, m, p) : m \in Messages, p \in Profiles }

\* Spec: a few messages, every profile, with and without a conversation_id
SmallChatRequests ==
  { ChatRequest(c, m, p) :
      c \in ConversationIds, m \in {M_blank, M_hello, M_Illegal}, p \in Profiles }

\* SpecConc: a few messages
ConcChatRequests ==
  { ChatRequest(None, m, [model |-> None, tone |-> None, language |-> None]) :
      m \in {M_blank, M_hello, M_Illegal} }

AllChatRequests == ChatRequests \cup SmallChatRequests \cup ConcChatRequests

\* --------------------------------------------------------------- chat
blocked == <<W_illegal, W_violence, W_selfharm>>

IsBlocked(user_text) ==
  \E k \in 1..Len(blocked) : Contains(blocked[k], Lower(user_text))

safe_reply(user_text) ==
  IF IsBlocked(user_text) THEN RefusalReply
  ELSE EchoPrefix \o user_text \o EchoSuffix

\* the title cut one character short: user_text[:39]
ChatTitleShort(user_text) ==
  IF Take(user_text, TitleLen - 1) # <<>> THEN Take(user_text, TitleLen - 1)
  ELSE NewChat

\* user_text[:40] or "New Chat"
ChatTitle(user_text) ==
  IF Take(user_text, TitleLen) # <<>> THEN Take(user_text, TitleLen) ELSE NewChat

\* chat_prepare testing the raw message for emptiness: "if not req.message"
chat_prepare_rawcheck(req) ==
  LET user_text == Strip(req.message) IN
  IF req.message = <<>>
  THEN [raised |-> TRUE, resp |-> HTTPException(400, "Message cannot be empty")]
  ELSE LET reply == safe_reply(user_text)
           message == ChatMessage("user", user_text, req.model, req.tone,
                                  req.language)
           assistant_msg == ChatMessage("assistant", reply, None, None, None)
       IN [raised |-> FALSE,
           safe_reply |-> reply,
           conv |-> Conversation(ChatTitle(user_text), <<message, assistant_msg>>)]

\* chat_prepare echoing the raw message: f"You said: {req.message}. ..."
chat_prepare_rawecho(req) ==
  LET user_text == Strip(req.message) IN
  IF user_text = <<>>
  THEN [raised |-> TRUE, resp |-> HTTPException(400, "Message cannot be empty")]
  ELSE LET reply == IF IsBlocked(user_text) THEN RefusalReply
                    ELSE EchoPrefix \o req.message \o EchoSuffix
           message == ChatMessage("user", user_text, req.model, req.tone,
                                  req.language)
           assistant_msg == ChatMessage("assistant", reply, None, None, None)
       IN [raised |-> FALSE,
           safe_reply |-> reply,
           conv |-> Conversation(ChatTitle(user_text), <<message, assistant_msg>>)]

\* lines 103-117: validation, reply and the conversation to store
chat_prepare(req) ==
  LET user_text == Strip(req.message) IN
  IF user_text = <<>>
  THEN [raised |-> TRUE, resp |-> HTTPException(400, "Message cannot be empty")]
  ELSE LET reply == safe_reply(user_text)
           message == ChatMessage("user", user_text, req.model, req.tone,
                                  req.language)
           assistant_msg == ChatMessage("assistant", reply, None, None, None)
       IN [raised |-> FALSE,
           safe_reply |-> reply,
           conv |-> Conversation(ChatTitle(user_text), <<message, assistant_msg>>)]

\* chat_persist without the fallback: a store failure surfaces as HTTP 500
chat_persist_raises(req, prep, st, outcome) ==
  LET r == create_document(st, "conversation", prep.conv, outcome) IN
  IF r.raised
  THEN [resp |-> HTTPException(500, r.error), st |-> r.st,
        calls |-> <<"create_document">>]
  ELSE [resp |-> [status |-> 200, reply |-> prep.safe_reply,
                  conversation_id |-> r.id],
        st |-> r.st,
        calls |-> <<"create_document">>]

\* chat_persist honouring conversation_id: the two messages are appended to
\* the conversation the request names, when the store holds it
chat_persist_appends(req, prep, st, outcome) ==
  LET convs == st.db["conversation"]
      hit == {i \in 1..Len(convs) : req.conversation_id = Some(Str(convs[i]["_id"]))}
  IN IF outcome = "ok" /\ hit # {}
     THEN LET i == CHOOSE i \in hit : TRUE IN
          [resp |-> [status |-> 200, reply |-> prep.safe_reply,
                     conversation_id |-> Str(convs[i]["_id"])],
           st |-> [st EXCEPT !.db["conversation"][i] =
                     [k \in DOMAIN @ |->
                        IF k = "messages" THEN @[k] \o prep.conv.messages ELSE @[k]]],
           calls |-> <<"update_document">>]
     ELSE LET r == create_document(st, "conversation", prep.conv, outcome)
              conv_id == IF r.raised THEN Ephemeral ELSE r.id
          IN [resp |-> [status |-> 200, reply |-> prep.safe_reply,
                        conversation_id |-> conv_id],
              st |-> r.st,
              calls |-> <<"create_document">>]

\* chat_persist deduplicating: a conversation with the same title and messages
\* is reused instead of stored again
chat_persist_dedup(req, prep, st, outcome) ==
  LET convs == st.db["conversation"]
      same == {i \in 1..Len(convs) :
                 /\ convs[i]["title"] = prep.conv.title
                 /\ convs[i]["messages"] = prep.conv.messages}
  IN IF outcome = "ok" /\ same # {}
     THEN [resp |-> [status |-> 200, reply |-> prep.safe_reply,
                     conversation_id |->
                       Str(convs[CHOOSE i \in same : TRUE]["_id"])],
           st |-> st,
           calls |-> <<>>]
     ELSE LET r == create_document(st, "conversation", prep.conv, outcome)
              conv_id == IF r.raised THEN Ephemeral ELSE r.id
          IN [resp |-> [status |-> 200, reply |-> prep.safe_reply,
                        conversation_id |-> conv_id],
              st |-> r.st,
              calls |-> <<"create_document">>]

\* lines 119-125: the store call, its fallback and the response
chat_persist(req, prep, st, outcome) ==
  LET r == create_document(st, "conversation", prep.conv, outcome)
      conv_id == IF r.raised THEN Ephemeral ELSE r.id
  IN [resp |-> [status |-> 200, reply |-> prep.safe_reply,
                conversation_id |-> conv_id],
      st |-> r.st,
      calls |-> <<"create_document">>]

\* chat_prepare over the request inputs, evaluated once
Prepared == [req \in AllChatRequests |-> chat_prepare(req)]

chat(req, st, outcome) ==
  LET prep == Prepared[req] IN
  IF prep.raised THEN [resp |-> prep.resp, st |-> st, calls |-> <<>>]
  ELSE chat_persist(req, prep, st, outcome)

\* ------------------------------------------------- create / list
\* create_conversation with chat's fallback: a store failure answers 200 with
\* the id "ephemeral"
create_conversation_ephemeral(payload, st, outcome) ==
  LET r == create_document(st, "conversation", payload, outcome) IN
  [resp |-> [status |-> 200, id |-> IF r.raised THEN Ephemeral ELSE r.id],
   st |-> r.st,
   calls |-> <<"create_document">>]

\* lines 78-83
create_conversation(payload, st, outcome) ==
  LET r == create_document(st, "conversation", payload, outcome) IN
  IF r.raised
  THEN [resp |-> HTTPException(500, r.error), st |-> r.st,
        calls |-> <<"create_document">>]
  ELSE [resp |-> [status |-> 200, id |-> r.id], st |-> r.st,
        calls |-> <<"create_document">>]

\* the identifier copied, not moved: d["id"] = str(d["_id"])
PublicDocKeepsRaw(d) ==
  d @@ ("id" :> (IF "_id" \in DOMAIN d THEN Str(d["_id"]) ELSE None))

\* d["id"] = str(d.pop("_id")) if "_id" in d else None
PublicDoc(d) ==
  LET rest == [k \in (DOMAIN d) \ {"_id"} |-> d[k]] IN
  rest @@ ("id" :> (IF "_id" \in DOMAIN d THEN Str(d["_id"]) ELSE None))

\* list_conversations over a store that hands out its own records: the
\* renaming of "_id" is done on the stored documents
list_conversations_aliasing(limit, st, outcome) ==
  LET r == get_documents(st, "conversation", limit, outcome) IN
  IF r.raised
  THEN [resp |-> HTTPException(500, r.error), st |-> st,
        calls |-> <<"get_documents">>]
  ELSE LET docs == [i \in 1..Len(r.docs) |-> PublicDoc(r.docs[i])] IN
       [resp |-> [status |-> 200, docs |-> docs],
        st |-> [st EXCEPT !.db["conversation"] =
                  [i \in 1..Len(@) |-> IF i <= Len(docs) THEN docs[i] ELSE @[i]]],
        calls |-> <<"get_documents">>]

\* lines 86-94
list_conversations(limit, st, outcome) ==
  LET r == get_documents(st, "conversation", limit, outcome) IN
  IF r.raised
  THEN [resp |-> HTTPException(500, r.error), st |-> st,
        calls |-> <<"get_documents">>]
  ELSE [resp |-> [status |-> 200,
                  docs |-> [i \in 1..Len(r.docs) |-> PublicDoc(r.docs[i])]],
        st |-> st,
        calls |-> <<"get_documents">>]

\* ------------------------------------------------------- diagnostics
read_root == [status |-> 200, message |-> "Hello from FastAPI Backend!"]

hello == [status |-> 200, message |-> "Hello from the backend API!"]

\* dbState: "none" (db is None), "error" (list_collection_names raises) or "ok"
test_database(st, dbState, urlSet, nameSet) ==
  [status |-> 200,
   backend |-> "Running",
   database |-> CASE dbState = "none" -> "Available but not initialized"
                  [] dbState = "error" -> "Connected but Error"
                  [] OTHER -> "Connected & Working",
   connection_status |-> IF dbState = "none" THEN "Not Connected" ELSE "Connected",
   collections |-> IF dbState = "ok"
                   THEN {c \in Collections : st.db[c] # <<>>} ELSE {},
   database_url |-> IF urlSet THEN "Set" ELSE "Not Set",
   database_name |-> IF nameSet THEN "Set" ELSE "Not Set"]

\* bodies of POST /api/conversations
Payloads ==
  { Conversation(NewChat, <<>>),
    Conversation(W_illegal,
                 <<ChatMessage("user", W_violence, None, None, None)>>) }

Store == [db |-> db, nextOid |-> nextOid]

HasRoom(cap) == Len(db["conversation"]) < cap

Idle == [pc |-> "idle"]

\* ------------------------------------------------------------ state machine
Init ==
  /\ db = [c \in Collections |-> <<>>]
  /\ nextOid = 1
  /\ last = [op |-> "none"]
  /\ pend = [p \in Procs |-> Idle]

\* a handler ran to its response
Complete(op, req, outcome, res) ==
  /\ db' = res.st.db
  /\ nextOid' = res.st.nextOid
  /\ last' = [op |-> op, req |-> req, outcome |-> outcome, resp |-> res.resp,
              calls |-> res.calls, pre |-> Store]
  /\ UNCHANGED pend

ChatOver(requests, cap) ==
  \E req \in requests, outcome \in Outcomes :
    /\ outcome = "ok" => HasRoom(cap)
    /\ Complete("chat", req, outcome, chat(req, Store, outcome))

\* POST /api/chat
Chat == ChatOver(SmallChatRequests, MaxStore)

\* POST /api/conversations
CreateConversation ==
  \E payload \in Payloads, outcome \in Outcomes :
    /\ outcome = "ok" => HasRoom(MaxStore)
    /\ Complete("create_conversation", payload, outcome,
                create_conversation(payload, Store, outcome))

\* GET /api/conversations
ListConversations ==
  \E limit \in 0..MaxLimit, outcome \in Outcomes :
    Complete("list_conversations", limit, outcome,
             list_conversations(limit, Store, outcome))

\* GET /
ReadRoot ==
  Complete("read_root", None, "ok",
           [resp |-> read_root, st |-> Store, calls |-> <<>>])

\* GET /api/hello
Hello ==
  Complete("hello", None, "ok", [resp |-> hello, st |-> Store, calls |-> <<>>])

\* GET /test
TestDatabase ==
  \E dbState \in {"none", "error", "ok"}, urlSet \in BOOLEAN, nameSet \in BOOLEAN :
    Complete("test_database", None, dbState,
             [resp |-> test_database(Store, dbState, urlSet, nameSet),
              st |-> Store, calls |-> <<>>])

Next ==
  \/ Chat
  \/ CreateConversation
  \/ ListConversations
  \/ ReadRoot
  \/ Hello
  \/ TestDatabase

Spec == Init /\ [][Next]_vars

\* ---------------------------------------------- chat over every message
ChatAny == ChatOver(ChatRequests, MaxChatStore)

NextChat == ChatAny

SpecChat == Init /\ [][NextChat]_vars

\* ------------------------------------------- concurrent chat submissions
\* Each process runs the chat handler; the store call is the point at which
\* requests of different processes interleave.

\* lines 103-117 of process p's request
ChatBegin(p) ==
  /\ pend[p].pc \in {"idle", "done"}
  /\ \E req \in ConcChatRequests :
       LET prep == Prepared[req] IN
       pend' = [pend EXCEPT ![p] =
                  IF prep.raised
                  THEN [pc |-> "done", req |-> req, resp |-> prep.resp]
                  ELSE [pc |-> "store", req |-> req, prep |-> prep]]
  /\ UNCHANGED <<db, nextOid, last>>

\* lines 119-125 of process p's request
ChatStore(p) ==
  /\ pend[p].pc = "store"
  /\ \E outcome \in Outcomes :
       /\ outcome = "ok" => HasRoom(MaxStore)
       /\ LET res == chat_persist(pend[p].req, pend[p].prep, Store, outcome) IN
          /\ db' = res.st.db
          /\ nextOid' = res.st.nextOid
          /\ pend' = [pend EXCEPT ![p] =
                        [pc |-> "done", req |-> pend[p].req, resp |-> res.resp]]
  /\ UNCHANGED last

NextConc == \E p \in Procs : ChatBegin(p) \/ ChatStore(p)

SpecConc == Init /\ [][NextConc]_vars

\* ================================================================ claims
\* Text helpers of the properties, written without the handler's operators.
AllWhitespace(m) == \A i \in 1..Len(m) : m[i] \in Whitespace

FirstInk(m) == CHOOSE i \in 1..Len(m) :
                 m[i] \notin Whitespace /\ \A j \in 1..(i - 1) : m[j] \in Whitespace

LastInk(m) == CHOOSE i \in 1..Len(m) :
                m[i] \notin Whitespace /\ \A j \in (i + 1)..Len(m) : m[j] \in Whitespace

Trimmed(m) == IF AllWhitespace(m) THEN <<>> ELSE SubSeq(m, FirstInk(m), LastInk(m))

\* c is the letter w in lower or upper case
SameLetter(c, w) ==
  \/ c = w
  \/ \E k \in 1..Len(LowerChars) : LowerChars[k] = w /\ UpperChars[k] = c

OccursAnyCase(word, m) ==
  \E i \in 1..(Len(m) - Len(word) + 1) :
    \A j \in 1..Len(word) : SameLetter(m[i + j - 1], word[j])

Denylisted(m) ==
  \/ OccursAnyCase(W_illegal, m)
  \/ OccursAnyCase(W_violence, m)
  \/ OccursAnyCase(W_selfharm, m)

IsChat == last.op = "chat"

StoreUnchanged == db = last.pre.db /\ nextOid = last.pre.nextOid

\* C1: a chat request whose message is empty or whitespace only fails with
\* HTTP 400 before any store call: create_document is not invoked and the
\* persisted conversations are unchanged.
C1_EmptyMessageRejected ==
  (IsChat /\ AllWhitespace(last.req.message)) =>
    /\ last.resp.status = 400
    /\ last.calls = <<>>
    /\ StoreUnchanged

C1_Witness ==
  /\ IsChat
  /\ last.req.message = M_blank
  /\ last.resp.status = 400
  /\ last.pre.db["conversation"] # <<>>

\* C2: when create_document raises during a chat with a non-empty trimmed
\* message, the chat does not fail: it answers 200 with the reply it would
\* have given had the store succeeded and conversation_id "ephemeral", and
\* nothing is stored.
C2_EphemeralFallback ==
  (IsChat /\ ~AllWhitespace(last.req.message) /\ last.outcome # "ok") =>
    /\ last.resp.status = 200
    /\ last.resp.reply = chat(last.req, last.pre, "ok").resp.reply
    /\ last.resp.conversation_id = Ephemeral
    /\ StoreUnchanged

C2_Witness ==
  /\ IsChat
  /\ last.req.message = M_hello
  /\ last.outcome \in StoreErrors
  /\ last.resp = [status |-> 200,
                  reply |-> EchoPrefix \o <<"h","e","l","l","o">> \o EchoSuffix,
                  conversation_id |-> Ephemeral]

\* C3: a chat message containing "illegal", "violence" or "self-harm" in any
\* letter case is answered with the fixed refusal string, whatever else it
\* contains and whether or not persistence succeeds.
C3_DenylistRefused ==
  (IsChat /\ Denylisted(last.req.message)) =>
    /\ last.resp.status = 200
    /\ last.resp.reply = RefusalReply

C3_Witness ==
  /\ IsChat
  /\ last.req.message = M_Illegal
  /\ last.outcome \in StoreErrors
  /\ last.resp.reply = RefusalReply

\* C4: a chat message that is non-empty after trimming and contains no
\* denylisted substring is answered "You said: " + trimmed message +
\* ". This is a demo assistant."; "I feel like hurting myself" is not blocked.
C4_EchoOfTrimmed ==
  (IsChat /\ ~AllWhitespace(last.req.message) /\ ~Denylisted(last.req.message)) =>
    /\ last.resp.status = 200
    /\ last.resp.reply = EchoPrefix \o Trimmed(last.req.message) \o EchoSuffix

C4_Witness ==
  /\ IsChat
  /\ last.req.message = M_hurting
  /\ last.resp.status = 200
  /\ last.resp.reply = EchoPrefix \o M_hurting \o EchoSuffix
  /\ last.resp.reply # RefusalReply

\* The record a chat request persists: title and the two messages.
PersistedByChat(req, reply) ==
  LET text == Trimmed(req.message) IN
  [title |-> SubSeq(text, 1, Min(40, Len(text))),
   messages |-> << [role |-> "user", content |-> text, model |-> req.model,
                    tone |-> req.tone, language |-> req.language],
                   [role |-> "assistant", content |-> reply, model |-> None,
                    tone |-> None, language |-> None] >>]

\* the chat stored exactly one record, the one of its request, under the
\* returned id
ChatStoredOne ==
  /\ db["conversation"] =
       Append(last.pre.db["conversation"],
              ("_id" :> last.pre.nextOid)
                @@ PersistedByChat(last.req, last.resp.reply))
  /\ \A c \in Collections \ {"conversation"} : db[c] = last.pre.db[c]
  /\ last.resp.conversation_id = Str(last.pre.nextOid)
  /\ Len(db["conversation"][Len(db["conversation"])]["messages"]) >= 1

\* C5 as stated: every successful chat submission persists exactly one
\* conversation (title = first 40 characters of the trimmed message, messages
\* = user message then assistant reply) and returns the store's id for it.
C5_EverySuccessPersists ==
  (IsChat /\ last.resp.status = 200) => ChatStoredOne

\* C5 amended: every chat submission whose store call succeeds persists
\* exactly one such conversation and returns the store's id for it.
C5_StoredChatPersistsOne ==
  (IsChat /\ last.resp.status = 200 /\ last.outcome = "ok") => ChatStoredOne

C5_Witness ==
  /\ IsChat
  /\ last.req.message = M_longblocked
  /\ last.req.tone = Some("warm")
  /\ last.outcome = "ok"
  /\ Len(db["conversation"]) = Len(last.pre.db["conversation"]) + 1
  /\ Len(db["conversation"][Len(db["conversation"])]["title"]) = 40
  /\ Len(Trimmed(last.req.message)) > 40

\* C6: create_conversation persists the given conversation as it is (no
\* denylist check, title and messages unchanged) and returns the id the store
\* generated; if the store call raises it fails with HTTP 500 carrying the
\* store's message, nothing is added and no "ephemeral" id is returned.
C6_CreateAsIsOr500 ==
  last.op = "create_conversation" =>
    IF last.outcome = "ok"
    THEN /\ db["conversation"] =
              Append(last.pre.db["conversation"],
                     ("_id" :> last.pre.nextOid) @@ last.req)
         /\ \A c \in Collections \ {"conversation"} : db[c] = last.pre.db[c]
         /\ last.resp = [status |-> 200, id |-> Str(last.pre.nextOid)]
    ELSE /\ last.resp = [status |-> 500, detail |-> last.outcome]
         /\ StoreUnchanged

C6_Witness ==
  /\ last.op = "create_conversation"
  /\ last.outcome = "ok"
  /\ Denylisted(last.req.title)
  /\ db["conversation"][Len(db["conversation"])]["title"] = W_illegal
  /\ last.resp.status = 200

\* the public record of a raw store record
IsPublicOf(d, raw) ==
  /\ d["id"] = Str(raw["_id"])
  /\ d["title"] = raw["title"]
  /\ d["messages"] = raw["messages"]

IsPrefix(s, t) == Len(s) <= Len(t) /\ SubSeq(t, 1, Len(s)) = s

ReadOps == {"list_conversations", "read_root", "hello", "test_database"}

\* C8: the persisted conversations are append-only: every step keeps every
\* stored record (same id, title, messages, same place), and a list request,
\* a diagnostic request or a failed request leaves the store unchanged.
C8_AppendOnly ==
  [][ /\ \A c \in Collections : IsPrefix(db[c], db'[c])
      /\ (last'.op \in ReadOps \/ last'.resp.status # 200) => db' = db ]_vars

C8_Witness ==
  /\ last.op = "list_conversations"
  /\ last.outcome = "ok"
  /\ Len(last.resp.docs) = 2
  /\ db["conversation"] = last.pre.db["conversation"]
  /\ "_id" \in DOMAIN db["conversation"][1]

\* C10: conversation_id is accepted and ignored: the same request with any
\* other conversation_id, from the same store and with the same store
\* outcome, gives the same response and the same store; a chat never touches
\* the conversation its conversation_id names, it adds a new one.
C10_ConversationIdIgnored ==
  IsChat =>
    /\ \A c \in ConversationIds :
         LET other == chat([last.req EXCEPT !.conversation_id = c], last.pre,
                           last.outcome)
         IN /\ other.resp = last.resp
            /\ other.st = Store
    /\ IsPrefix(last.pre.db["conversation"], db["conversation"])
    /\ (last.resp.status = 200 /\ last.outcome = "ok") =>
         /\ Len(db["conversation"]) = Len(last.pre.db["conversation"]) + 1
         /\ \A i \in 1..Len(last.pre.db["conversation"]) :
              Str(last.pre.db["conversation"][i]["_id"]) # last.resp.conversation_id

C10_Witness ==
  /\ IsChat
  /\ last.req.conversation_id = Some(Str(1))
  /\ last.outcome = "ok"
  /\ last.pre.db["conversation"] # <<>>
  /\ last.pre.db["conversation"][1]["_id"] = 1
  /\ db["conversation"][1] = last.pre.db["conversation"][1]
  /\ last.resp.status = 200
  /\ last.resp.conversation_id = Str(2)

\* the step is the store call of process p's chat, with the effect of p's
\* request alone
OwnStoreStep(p) ==
  LET req == pend[p].req
      reply == pend'[p].resp.reply
  IN /\ pend'[p].pc = "done"
     /\ pend'[p].req = req
     /\ pend'[p].resp.status = 200
     /\ reply = IF Denylisted(req.message) THEN RefusalReply
                ELSE EchoPrefix \o Trimmed(req.message) \o EchoSuffix
     /\ \/ /\ pend'[p].resp.conversation_id = Ephemeral
           /\ db' = db
        \/ /\ pend'[p].resp.conversation_id = Str(nextOid)
           /\ db' = [db EXCEPT !["conversation"] =
                       Append(@, ("_id" :> nextOid) @@ PersistedByChat(req, reply))]

\* C9: concurrent chat submissions are independent under every interleaving
\* of their store calls: a step of one request leaves every other request as
\* it was, its reply comes from its own message, a successful store call adds
\* exactly one record of its own (no deduplication), and a failed one changes
\* nothing for the others.
C9_ConcurrentIndependent ==
  [][ \A p \in Procs :
        pend'[p] # pend[p] =>
          /\ \A q \in Procs \ {p} : pend'[q] = pend[q]
          /\ IF pend[p].pc = "store" THEN OwnStoreStep(p) ELSE db' = db ]_vars

C9_Witness ==
  \E p, q \in Procs :
    /\ p # q
    /\ pend[p].pc = "done" /\ pend[q].pc = "done"
    /\ pend[p].req = pend[q].req
    /\ pend[p].resp.status = 200 /\ pend[q].resp.status = 200
    /\ pend[p].resp.conversation_id = Str(1)
    /\ pend[q].resp.conversation_id = Str(2)
    /\ Len(db["conversation"]) = 2
    /\ db["conversation"][1]["title"] = db["conversation"][2]["title"]

====
